---- MODULE Spec2Model ----
(***************************************************************************)
(* Model of cohort_2/week5/1. Generate Dataset.ipynb: the taxonomy         *)
(* validator of ItemMetadata, the bounded-concurrency batch of             *)
(* generate_dataset_label calls (tenacity retry around an asyncio          *)
(* semaphore and a 30 s wait_for), tqdm's gather, and the flattening of    *)
(* the results into the records pushed to the dataset sink.                *)
(***************************************************************************)
EXTENDS Integers, Sequences, FiniteSets, TLC

(***************************************************************************)
(* Bounds                                                                  *)
(***************************************************************************)
\* number of attributes a generated candidate carries at most
MaxAttrs == 2
\* rows taken from the dataset (n_rows, 150 in the notebook run)
n_rows == 3
\* initial value of the semaphore (Semaphore(15) in the notebook run)
ConcurrencyLimit == 2

(***************************************************************************)
(* Program constants                                                       *)
(***************************************************************************)
\* stop_after_attempt(3)
MaxAttempts == 3

(***************************************************************************)
(* Python helpers                                                          *)
(***************************************************************************)
\* the elements of a list (x in list)
Range(s) == {s[k] : k \in 1..Len(s)}

\* sequences over S of length at most n
SeqUpTo(S, n) == UNION {[1..k -> S] : k \in 0..n}

\* Python truthiness of a dict: None and {} are both the empty function
Truthy(d) == DOMAIN d # {}

(***************************************************************************)
(* The taxonomy (taxonomy_data as returned by process_taxonomy_file):      *)
(* taxonomy_map is category -> subcategory -> {product_type, attributes},  *)
(* common_attributes holds the flat vocabularies.                          *)
(***************************************************************************)
taxonomy_map ==
    ("Women" :>
        ("Tops" :> [product_type |-> {"Tank Tops"},
                    attributes |-> ("Sleeve Length" :> {"Sleeveless", "Short"})]
         @@
         "Dresses" :> [product_type |-> {"Maxi"},
                       attributes |-> ("Length" :> {"Short", "Long"})]))
    @@
    ("Men" :>
        ("Tops" :> [product_type |-> {"Polo"},
                    attributes |-> ("Sleeve Length" :> {"Short", "Long"})]))

common_attributes ==
    ("Material" :> {"Cotton", "Silk"}) @@ ("Pattern" :> {"Solid", "Striped"})

taxonomy_data ==
    ("taxonomy_map" :> taxonomy_map) @@ ("common_attributes" :> common_attributes)

\* the validation contexts a call can be made with: none, one whose
\* taxonomy_data is empty, and context={"taxonomy_data": taxonomy_data}
NoContext == <<>>
EmptyTaxonomyContext == [taxonomy_data |-> <<>>]
\* a context that is not empty and has no "taxonomy_data" entry
OtherKeyContext == [taxonomy |-> taxonomy_data]
FullContext == [taxonomy_data |-> taxonomy_data]

(***************************************************************************)
(* ItemMetadata candidates (title, brand and description are free text     *)
(* that no validator reads; the title is kept, as the pair (image shown   *)
(* to the model, position in the answer), to tell records apart)          *)
(***************************************************************************)
ItemAttribute == [name : {"Sleeve Length", "Length", "Fit"},
                  value : {"Sleeveless", "Short", "Long"}]

ItemMetadata ==
    [title : {<<0, 0>>},
     category : {"Women", "Men", "Kids"},
     subcategory : {"Tops", "Dresses", "Shoes"},
     product_type : {"Tank Tops", "Polo", "Maxi", "Boots"},
     attributes : SeqUpTo(ItemAttribute, MaxAttrs),
     material : {"Cotton", "Vinyl"},
     pattern : {"Solid", "Glitter"}]

(***************************************************************************)
(* Validation outcomes.  A ValueError is modelled by what its message      *)
(* interpolates: the label the message starts with, the rejected value,    *)
(* the second value it mentions (about), and the collection of valid       *)
(* values when the message prints one (listed).                            *)
(***************************************************************************)
Accepted ==
    [ok |-> TRUE, label |-> "", value |-> "", about |-> "",
     listed |-> FALSE, valid |-> {}]

ValueError(label, value, about, listed, valid) ==
    [ok |-> FALSE, label |-> label, value |-> value, about |-> about,
     listed |-> listed, valid |-> valid]

TaxonomyRequired ==
    ValueError("Taxonomy data is required for validation", "", "", FALSE, {})

\* the lookup context["taxonomy_data"] of a dict without that key
KeyError ==
    [ok |-> FALSE, label |-> "KeyError", value |-> "taxonomy_data", about |-> "",
     listed |-> FALSE, valid |-> {}]

\* how "not context or not context['taxonomy_data']" ends: "required" when
\* it is true, "KeyError" when the lookup fails, "present" when it is false
context_check(context) ==
    IF ~Truthy(context) THEN "required"
    ELSE IF "taxonomy_data" \notin DOMAIN context THEN "KeyError"
    ELSE IF ~Truthy(context["taxonomy_data"]) THEN "required"
    ELSE "present"

MissingContext(context) == context_check(context) # "present"

\* what a validator raises when the context gives it no taxonomy
ContextError(context) ==
    IF context_check(context) = "KeyError" THEN KeyError ELSE TaxonomyRequired

\* ItemMetadata.validate_material_and_pattern
validate_material_and_pattern(self, context) ==
    IF MissingContext(context) THEN ContextError(context)
    ELSE LET common == context["taxonomy_data"]["common_attributes"] IN
         IF self.pattern \notin common["Pattern"]
         THEN ValueError("Pattern", self.pattern, "", TRUE, common["Pattern"])
         ELSE IF self.material \notin common["Material"]
         THEN ValueError("Material", self.material, "", TRUE, common["Material"])
         ELSE Accepted

\* mutant: "return self" indented into the loop, only the first attribute is checked
validate_attributes_first_only(attributes, k, subcategory_data, subcategory) ==
    IF k > Len(attributes) THEN Accepted
    ELSE LET attr == attributes[k] IN
         IF attr.name \notin DOMAIN subcategory_data.attributes
         THEN ValueError("Attribute", attr.name, subcategory, TRUE,
                         DOMAIN subcategory_data.attributes)
         ELSE IF attr.value \notin subcategory_data.attributes[attr.name]
         THEN ValueError("Value", attr.value, attr.name, TRUE,
                         subcategory_data.attributes[attr.name])
         ELSE Accepted

\* the loop "for attr in self.attributes" from its k-th element on
RECURSIVE validate_attributes(_, _, _, _)
validate_attributes(attributes, k, subcategory_data, subcategory) ==
    IF k > Len(attributes) THEN Accepted
    ELSE LET attr == attributes[k] IN
         IF attr.name \notin DOMAIN subcategory_data.attributes
         THEN ValueError("Attribute", attr.name, subcategory, TRUE,
                         DOMAIN subcategory_data.attributes)
         ELSE IF attr.value \notin subcategory_data.attributes[attr.name]
         THEN ValueError("Value", attr.value, attr.name, TRUE,
                         subcategory_data.attributes[attr.name])
         ELSE validate_attributes(attributes, k + 1, subcategory_data, subcategory)

\* mutant: an empty attribute list is refused before the loop
validate_category_and_attributes_nonempty(self, context) ==
    IF MissingContext(context) THEN ContextError(context)
    ELSE LET tmap == context["taxonomy_data"]["taxonomy_map"] IN
         IF self.category \notin DOMAIN tmap
         THEN ValueError("Category", self.category, "", TRUE, DOMAIN tmap)
         ELSE IF self.subcategory \notin DOMAIN tmap[self.category]
         THEN ValueError("Subcategory", self.subcategory, self.category, FALSE, {})
         ELSE LET subcategory_data == tmap[self.category][self.subcategory] IN
              IF self.product_type \notin subcategory_data.product_type
              THEN ValueError("Product type", self.product_type, self.subcategory,
                              TRUE, subcategory_data.product_type)
              ELSE IF self.attributes = <<>>
              THEN ValueError("Attribute", "", self.subcategory, TRUE,
                              DOMAIN subcategory_data.attributes)
              ELSE validate_attributes(self.attributes, 1, subcategory_data,
                                       self.subcategory)

\* ItemMetadata.validate_category_and_attributes
validate_category_and_attributes(self, context) ==
    IF MissingContext(context) THEN ContextError(context)
    ELSE LET tmap == context["taxonomy_data"]["taxonomy_map"] IN
         IF self.category \notin DOMAIN tmap
         THEN ValueError("Category", self.category, "", TRUE, DOMAIN tmap)
         ELSE IF self.subcategory \notin DOMAIN tmap[self.category]
         THEN ValueError("Subcategory", self.subcategory, self.category, FALSE, {})
         ELSE LET subcategory_data == tmap[self.category][self.subcategory] IN
              IF self.product_type \notin subcategory_data.product_type
              THEN ValueError("Product type", self.product_type, self.subcategory,
                              TRUE, subcategory_data.product_type)
              ELSE validate_attributes(self.attributes, 1, subcategory_data,
                                       self.subcategory)

\* mutant: the category validator is defined (and so run) first
model_validate_category_first(self, context) ==
    LET first == validate_category_and_attributes(self, context) IN
    IF ~first.ok THEN first
    ELSE validate_material_and_pattern(self, context)

\* pydantic runs the mode="after" model validators of a class in the order
\* of their definition, and the first ValueError ends the validation
model_validate(self, context) ==
    LET first == validate_material_and_pattern(self, context) IN
    IF ~first.ok THEN first
    ELSE validate_category_and_attributes(self, context)

(***************************************************************************)
(* The dataset and what the model can answer                               *)
(***************************************************************************)
Items == 1..n_rows

\* ds: the rows taken from the image dataset, each with its image
ds == [i \in Items |-> [image |-> 100 + i]]

\* a record that conforms to the taxonomy, with one attribute
TankTop(image, n) ==
    [title |-> <<image, n>>, category |-> "Women", subcategory |-> "Tops",
     product_type |-> "Tank Tops",
     attributes |-> <<[name |-> "Sleeve Length", value |-> "Sleeveless"]>>,
     material |-> "Cotton", pattern |-> "Solid"]

\* a record that conforms to the taxonomy, without attributes
Polo(image, n) ==
    [title |-> <<image, n>>, category |-> "Men", subcategory |-> "Tops",
     product_type |-> "Polo", attributes |-> <<>>,
     material |-> "Cotton", pattern |-> "Striped"]

\* a record whose attribute value is not valid under Women/Tops
LongSleeveTankTop(image, n) ==
    [title |-> <<image, n>>, category |-> "Women", subcategory |-> "Tops",
     product_type |-> "Tank Tops",
     attributes |-> <<[name |-> "Sleeve Length", value |-> "Long"]>>,
     material |-> "Cotton", pattern |-> "Solid"]

\* the candidate lists the model may answer with for a request that shows
\* the given image (response_model=List[ItemMetadata])
ModelResponses(image) ==
    { <<>>,
      <<TankTop(image, 1)>>,
      <<TankTop(image, 1), Polo(image, 2)>>,
      <<LongSleeveTankTop(image, 1)>>,
      <<TankTop(image, 1), LongSleeveTankTop(image, 2)>> }

\* the ways a call can fail before it yields an answer
CallFailures == {"timeout", "transport"}

\* what random.uniform(10.0, 400.0) returns, in thousandths
UniformDraws == {181044}

\* draws of random.uniform(10.0, 400.0) at both ends of the range and
\* inside it, in thousandths
PriceDraws == (10000..10100) \cup {181044, 205555} \cup (399900..400000)

(***************************************************************************)
(* Library semantics used by the batch                                     *)
(***************************************************************************)
\* mutant: the semaphore admits a caller although no permit is left
sem_can_acquire_nonnegative(value) == value >= 0

\* asyncio.Semaphore.acquire proceeds only while the value is positive
sem_can_acquire(value) == value > 0

\* mutant: the permit is not handed back
sem_release_lost(value) == value

\* asyncio.Semaphore.release, run by "async with" on every way out
sem_release(value) == value + 1

\* mutant: one attempt more than stop_after_attempt(3) allows
stop_after_attempt_late(n) == n > MaxAttempts

\* tenacity's stop_after_attempt(3): give up once the attempt number
\* has reached 3
stop_after_attempt(n) == n >= MaxAttempts

\* mutant: an answer without records is refused like an invalid one
AllValid_nonempty(response, context) ==
    /\ response # <<>>
    /\ \A k \in 1..Len(response) : model_validate(response[k], context).ok

\* mutant: only the first candidate of the answer is validated
AllValid_first_only(response, context) ==
    response # <<>> => model_validate(response[1], context).ok

\* instructor validates every candidate of the answer with the context
\* of the call; one failure fails the call
AllValid(response, context) ==
    \A k \in 1..Len(response) : model_validate(response[k], context).ok

\* mutant: the image is read from a variable shared by all tasks, which
\* holds the last row of the dataset
Rows_shared_image(dataset_item, items) ==
    [k \in 1..Len(items) |-> [image |-> ds[n_rows].image, metadata |-> items[k]]]

\* the return value of generate_dataset_label
Rows(dataset_item, items) ==
    [k \in 1..Len(items) |-> [image |-> dataset_item.image, metadata |-> items[k]]]

\* mutant: gather hands back the rows in the order the calls completed
gather_in_completion_order(res) == [k \in 1..Len(res) |-> res[k][2]]

\* tqdm_asyncio.gather: [i for _, i in sorted(res)], res holding the
\* (index, result) pairs in completion order
gather_result(res) ==
    LET sorted == [k \in 1..Len(res) |->
                     CHOOSE e \in Range(res) :
                        Cardinality({f \in Range(res) : f[1] < e[1]}) = k - 1]
    IN [k \in 1..Len(res) |-> sorted[k][2]]

(***************************************************************************)
(* Flattening and assembly                                                 *)
(***************************************************************************)
\* [item for sublist in results for item in sublist]
RECURSIVE flatten(_)
flatten(lists) ==
    IF lists = <<>> THEN <<>> ELSE Head(lists) \o flatten(Tail(lists))

\* json.dumps of the list of {"name", "value"} dicts, as its tokens
RECURSIVE json_dumps_items(_)
json_dumps_items(attributes) ==
    IF attributes = <<>> THEN <<>>
    ELSE <<"{", "name", ":", Head(attributes).name, ",",
           "value", ":", Head(attributes).value, "}">>
         \o (IF Len(attributes) > 1 THEN <<",">> ELSE <<>>)
         \o json_dumps_items(Tail(attributes))

json_dumps(attributes) == <<"[">> \o json_dumps_items(attributes) \o <<"]">>

\* mutant: the draw is stored as it is
round2_not_applied(draw) == draw

\* round(x, 2) of a draw given in thousandths: the nearest multiple of a
\* hundredth (half to even), in thousandths
round2(draw) ==
    LET q == draw \div 10
        r == draw % 10
    IN 10 * (IF r > 5 \/ (r = 5 /\ q % 2 = 1) THEN q + 1 ELSE q)

\* mutant: the identifier is the 0-based position of enumerate
entry_id_zero_based(position) == position - 1

\* the id given to the record at a 1-based position: enumerate's id + 1
entry_id(position) == (position - 1) + 1

\* flatten_item(item, id) with the draw random.uniform returned
flatten_item(item, id, draw) ==
    [image |-> item.image,
     title |-> item.metadata.title,
     category |-> item.metadata.category,
     subcategory |-> item.metadata.subcategory,
     product_type |-> item.metadata.product_type,
     attributes |-> json_dumps(item.metadata.attributes),
     material |-> item.metadata.material,
     pattern |-> item.metadata.pattern,
     id |-> id,
     price |-> round2(draw)]

(***************************************************************************)
(* State                                                                   *)
(***************************************************************************)
VARIABLES
    candidate,      \* validator run: the candidate record under validation
    context,        \* validator run: the validation context of the call
    verdict,        \* validator run: outcome of model_validate
    vpc,            \* validator run: "input" before, "validated" after
    pc,             \* per item: where its generate_dataset_label task is
    attempt_number, \* per item: tenacity's attempt number
    sem,            \* the value of the semaphore
    task_result,    \* per item: the rows its task returned
    retry_errors,   \* per item: the RetryErrors its task has raised
    res,            \* gather's (index, result) pairs, in completion order
    cell,           \* the notebook cell that runs next, or how the run ended
    results,        \* the value bound by "results = await asyncio.gather(...)"
    flattened_results,
    hf_dataset_items,
    pushed,         \* the lists handed to the dataset sink, one per call
    draw,           \* pricing run: what random.uniform returned
    priced,         \* pricing run: the record flatten_item built
    ppc             \* pricing run: "drawn" before, "flattened" after

vvars == <<candidate, context, verdict, vpc>>
tvars == <<pc, attempt_number, sem, task_result, retry_errors>>
nvars == <<res, cell, results, flattened_results, hf_dataset_items, pushed>>
pvars == <<draw, priced, ppc>>
vars == <<candidate, context, verdict, vpc, pc, attempt_number, sem,
          task_result, retry_errors, res, cell, results, flattened_results,
          hf_dataset_items, pushed, draw, priced, ppc>>

\* the state of the pricing run while the batch or the validator runs
PriceIdle ==
    /\ draw = 181044
    /\ priced = <<>>
    /\ ppc = "idle"

\* the state of the validator run while the batch runs
ValidatorIdle ==
    /\ candidate = Polo(0, 0)
    /\ context = FullContext
    /\ verdict = Accepted
    /\ vpc = "idle"

\* the state of the notebook when the batch cell starts: gather has made one
\* task per row and none has run
BatchInit ==
    /\ pc = [i \in Items |-> "pending"]
    /\ attempt_number = [i \in Items |-> 0]
    /\ sem = ConcurrencyLimit
    /\ task_result = [i \in Items |-> <<>>]
    /\ retry_errors = [i \in Items |-> 0]
    /\ res = <<>>
    /\ cell = "batch"
    /\ results = <<>>
    /\ flattened_results = <<>>
    /\ hf_dataset_items = <<>>
    /\ pushed = <<>>

Init == ValidatorIdle /\ PriceIdle /\ BatchInit

(***************************************************************************)
(* results = await asyncio.gather(...): what gather does when a task ends  *)
(***************************************************************************)
\* a task returned: gather collects (index, result) and, with the last
\* one, binds the sorted list to results and the cell is over
GatherCollects(i, rows) ==
    IF cell = "batch"
    THEN LET collected == Append(res, <<i, rows>>) IN
         /\ res' = collected
         /\ IF Len(collected) = n_rows
            THEN /\ results' = gather_result(collected)
                 /\ cell' = "flatten"
            ELSE UNCHANGED <<results, cell>>
    ELSE UNCHANGED <<res, results, cell>>

\* a task raised: the exception leaves gather and fails the cell, results
\* is never bound; the tasks still running are not cancelled
GatherRaises ==
    /\ cell' = IF cell = "batch" THEN "batch raised" ELSE cell
    /\ UNCHANGED <<res, results>>

(***************************************************************************)
(* generate_dataset_label under @retry, one task per item                  *)
(***************************************************************************)
\* tenacity calls the function: first when the task starts, then again
\* after each wait_fixed(1)
StartAttempt(i) ==
    /\ pc[i] \in {"pending", "sleep"}
    /\ attempt_number' = [attempt_number EXCEPT ![i] = @ + 1]
    /\ pc' = [pc EXCEPT ![i] = "acquire"]
    /\ UNCHANGED <<sem, task_result, retry_errors>>
    /\ UNCHANGED nvars /\ UNCHANGED vvars /\ UNCHANGED pvars

\* "async with sem" is entered; the image is saved and the request is sent
\* under wait_for(..., 30)
Acquire(i) ==
    /\ pc[i] = "acquire"
    /\ sem_can_acquire(sem)
    /\ sem' = sem - 1
    /\ pc' = [pc EXCEPT ![i] = "call"]
    /\ UNCHANGED <<attempt_number, task_result, retry_errors>>
    /\ UNCHANGED nvars /\ UNCHANGED vvars /\ UNCHANGED pvars

\* mutant: the semaphore is taken around the retry loop, so a failed attempt
\* that is retried keeps its permit
AttemptFails_holds_through_retry(i) ==
    /\ IF stop_after_attempt(attempt_number[i])
       THEN /\ sem' = sem_release(sem)
            /\ pc' = [pc EXCEPT ![i] = "raised"]
            /\ retry_errors' = [retry_errors EXCEPT ![i] = @ + 1]
            /\ GatherRaises
       ELSE /\ sem' = sem
            /\ pc' = [pc EXCEPT ![i] = "sleep"]
            /\ UNCHANGED <<retry_errors, res, results, cell>>
    /\ UNCHANGED <<attempt_number, task_result>>
    /\ UNCHANGED <<flattened_results, hf_dataset_items, pushed>>
    /\ UNCHANGED vvars /\ UNCHANGED pvars

\* an exception leaves "async with sem"; tenacity either waits and calls
\* again or raises RetryError, which ends the task
AttemptFails(i) ==
    /\ sem' = sem_release(sem)
    /\ IF stop_after_attempt(attempt_number[i])
       THEN /\ pc' = [pc EXCEPT ![i] = "raised"]
            /\ retry_errors' = [retry_errors EXCEPT ![i] = @ + 1]
            /\ GatherRaises
       ELSE /\ pc' = [pc EXCEPT ![i] = "sleep"]
            /\ UNCHANGED <<retry_errors, res, results, cell>>
    /\ UNCHANGED <<attempt_number, task_result>>
    /\ UNCHANGED <<flattened_results, hf_dataset_items, pushed>>
    /\ UNCHANGED vvars /\ UNCHANGED pvars

\* mutant: the permit is not handed back when the attempt succeeds
AttemptSucceeds_keeps_permit(i, items) ==
    /\ sem' = sem
    /\ task_result' = [task_result EXCEPT ![i] = Rows(ds[i], items)]
    /\ pc' = [pc EXCEPT ![i] = "returned"]
    /\ GatherCollects(i, Rows(ds[i], items))
    /\ UNCHANGED <<attempt_number, retry_errors>>
    /\ UNCHANGED <<flattened_results, hf_dataset_items, pushed>>
    /\ UNCHANGED vvars /\ UNCHANGED pvars

\* the answer passed validation: "async with sem" is left and the rows are
\* returned
AttemptSucceeds(i, items) ==
    /\ sem' = sem_release(sem)
    /\ task_result' = [task_result EXCEPT ![i] = Rows(ds[i], items)]
    /\ pc' = [pc EXCEPT ![i] = "returned"]
    /\ GatherCollects(i, Rows(ds[i], items))
    /\ UNCHANGED <<attempt_number, retry_errors>>
    /\ UNCHANGED <<flattened_results, hf_dataset_items, pushed>>
    /\ UNCHANGED vvars /\ UNCHANGED pvars

\* the model answers within the 30 s: every candidate is validated with
\* context={"taxonomy_data": taxonomy_data}, and the attempt fails if one
\* is rejected
CallReturns(i) ==
    /\ pc[i] = "call"
    /\ \E items \in ModelResponses(ds[i].image) :
          IF AllValid(items, FullContext)
          THEN AttemptSucceeds(i, items)
          ELSE AttemptFails(i)

\* mutant: wait_for is put around "async with sem", so the 30 s also run
\* while the task waits for a permit
CallFails_timer_before_gate(i) ==
    \/ /\ pc[i] = "call"
       /\ \E failure \in CallFailures : AttemptFails(i)
    \/ /\ pc[i] = "acquire"
       /\ IF stop_after_attempt(attempt_number[i])
          THEN /\ pc' = [pc EXCEPT ![i] = "raised"]
               /\ retry_errors' = [retry_errors EXCEPT ![i] = @ + 1]
               /\ GatherRaises
          ELSE /\ pc' = [pc EXCEPT ![i] = "sleep"]
               /\ UNCHANGED <<retry_errors, res, results, cell>>
       /\ UNCHANGED <<sem, attempt_number, task_result>>
       /\ UNCHANGED <<flattened_results, hf_dataset_items, pushed>>
       /\ UNCHANGED vvars /\ UNCHANGED pvars

\* the request fails, or wait_for cancels it after 30 s (TimeoutError)
CallFails(i) ==
    /\ pc[i] = "call"
    /\ \E failure \in CallFailures : AttemptFails(i)

(***************************************************************************)
(* The cells after the batch                                               *)
(***************************************************************************)
\* flattened_results = [item for sublist in results for item in sublist]
\* (gather's local list is gone by now)
FlattenCell ==
    /\ cell = "flatten"
    /\ flattened_results' = flatten(results)
    /\ cell' = "assemble"
    /\ res' = <<>>
    /\ UNCHANGED <<results, hf_dataset_items, pushed>>
    /\ UNCHANGED tvars /\ UNCHANGED vvars /\ UNCHANGED pvars

\* hf_dataset_items = [flatten_item(item, id + 1) for id, item in enumerate(...)]
AssembleCell ==
    /\ cell = "assemble"
    /\ \E draws \in [1..Len(flattened_results) -> UniformDraws] :
          hf_dataset_items' =
              [p \in 1..Len(flattened_results) |->
                  flatten_item(flattened_results[p], entry_id(p), draws[p])]
    /\ cell' = "push"
    /\ UNCHANGED <<res, results, flattened_results, pushed>>
    /\ UNCHANGED tvars /\ UNCHANGED vvars /\ UNCHANGED pvars

\* Dataset.from_list(hf_dataset_items).push_to_hub(...): the sink takes the
\* list and either commits it or fails
PushCell ==
    /\ cell = "push"
    /\ pushed' = Append(pushed, hf_dataset_items)
    /\ cell' \in {"finished", "sink failed"}
    /\ UNCHANGED <<res, results, flattened_results, hf_dataset_items>>
    /\ UNCHANGED tvars /\ UNCHANGED vvars /\ UNCHANGED pvars

Next ==
    \/ \E i \in Items : StartAttempt(i)
    \/ \E i \in Items : Acquire(i)
    \/ \E i \in Items : CallReturns(i)
    \/ \E i \in Items : CallFails(i)
    \/ FlattenCell
    \/ AssembleCell
    \/ PushCell

Spec == Init /\ [][Next]_vars

\* the event loop runs every task that can run: a pending or sleeping task
\* is called, a task at the semaphore enters it when a permit is free, and
\* wait_for ends every call after 30 s at the latest
FairSpec ==
    /\ Spec
    /\ \A i \in Items : WF_vars(StartAttempt(i))
    /\ \A i \in Items : WF_vars(Acquire(i))
    /\ \A i \in Items : WF_vars(CallReturns(i) \/ CallFails(i))

(***************************************************************************)
(* Batch properties                                                        *)
(***************************************************************************)
\* the extraction calls that have been started and have not yet ended
Outstanding == {i \in Items : pc[i] = "call"}

\* the tasks that have ended
Terminal == {"returned", "raised"}

AllTerminal == \A i \in Items : pc[i] \in Terminal

\* gather has returned and results is bound
ResultsBound == cell \notin {"batch", "batch raised"}

(***************************************************************************)
(* C1: in every reachable state of a batch over n_rows items with a gate   *)
(* of capacity ConcurrencyLimit, the number of extraction calls started    *)
(* and not yet returned, failed or timed out is at most ConcurrencyLimit.  *)
(***************************************************************************)
C1_OutstandingAtMostLimit == Cardinality(Outstanding) <= ConcurrencyLimit

\* the gate is full after a retry, and an item waits for it if there are
\* more items than permits
C1_Witness ==
    /\ Cardinality(Outstanding) = ConcurrencyLimit
    /\ \E i \in Items : attempt_number[i] > 1
    /\ n_rows > ConcurrencyLimit => \E i \in Items : pc[i] = "acquire"

(***************************************************************************)
(* C2: when the batch completes, the i-th element of the result sequence   *)
(* is the row produced for the i-th input item, whatever the order in      *)
(* which the calls finished.                                               *)
(***************************************************************************)
C2_ResultsInInputOrder ==
    ResultsBound =>
        /\ Len(results) = n_rows
        /\ \A i \in Items : results[i] = task_result[i]

\* the batch has completed, the first call to finish was not that of the
\* first item, and some item needed a retry
C2_Witness ==
    /\ cell = "flatten"
    /\ Len(res) = n_rows
    /\ res[1][1] # 1
    /\ res[1][2] # <<>>
    /\ \E i \in Items : attempt_number[i] > 1

(***************************************************************************)
(* C3: an item whose attempts are all exhausted does not abort the batch:  *)
(* the batch is not failed by it, and once every item has ended the rows   *)
(* of all items that succeeded have been returned to the caller.           *)
(***************************************************************************)
C3_ExhaustedItemDoesNotAbortBatch ==
    /\ cell # "batch raised"
    /\ AllTerminal =>
          /\ ResultsBound
          /\ \A i \in Items : pc[i] = "returned" => results[i] = task_result[i]

(***************************************************************************)
(* C4: a failed attempt is retried while fewer than MaxAttempts attempts   *)
(* have been made; an item makes at most MaxAttempts attempts, makes none  *)
(* after an attempt succeeded, and an item whose every attempt failed      *)
(* raises exactly one exhausted-retries error, after exactly MaxAttempts   *)
(* attempts.                                                               *)
(***************************************************************************)
C4_AttemptsInv ==
    \A i \in Items :
        /\ attempt_number[i] <= MaxAttempts
        /\ pc[i] = "raised" => attempt_number[i] = MaxAttempts /\ retry_errors[i] = 1
        /\ pc[i] # "raised" => retry_errors[i] = 0

C4_AttemptsStep ==
    \A i \in Items :
        /\ pc[i] \in Terminal =>
              /\ pc'[i] = pc[i]
              /\ attempt_number'[i] = attempt_number[i]
              /\ retry_errors'[i] = retry_errors[i]
        /\ (pc[i] = "call" /\ pc'[i] \notin {"call", "returned"}) =>
              IF attempt_number[i] < MaxAttempts
              THEN pc'[i] = "sleep"
              ELSE pc'[i] = "raised"
        /\ (pc[i] = "sleep" /\ pc'[i] # "sleep") =>
              /\ pc'[i] = "acquire"
              /\ attempt_number'[i] = attempt_number[i] + 1

C4_BoundedRetry == []C4_AttemptsInv /\ [][C4_AttemptsStep]_vars

\* one item has exhausted its three attempts and another has succeeded at
\* its second
C4_Witness ==
    \E i, j \in Items :
        /\ pc[i] = "raised" /\ attempt_number[i] = MaxAttempts
        /\ pc[j] = "returned" /\ attempt_number[j] = 2

(***************************************************************************)
(* C10: provided every started call eventually returns, fails or is cut    *)
(* off by its timeout, every item waiting at the gate is eventually        *)
(* admitted, every item eventually reaches a terminal outcome, and the     *)
(* batch as a whole eventually finishes.                                   *)
(***************************************************************************)
\* an item leaves the gate's queue only by being admitted
C10_AdmittedFromGate ==
    \A i \in Items : (pc[i] = "acquire" /\ pc'[i] # "acquire") => pc'[i] = "call"

C10_BatchRunsToCompletion ==
    /\ [][C10_AdmittedFromGate]_vars
    /\ <>[](AllTerminal /\ cell # "batch")

\* every item has ended, one of them only with its last attempt, and the
\* batch is over
C10_Witness ==
    /\ AllTerminal
    /\ cell # "batch"
    /\ \E i \in Items : attempt_number[i] = MaxAttempts

(***************************************************************************)
(* Validator run: one candidate, one context, one model_validate call      *)
(***************************************************************************)
Contexts == {NoContext, EmptyTaxonomyContext, OtherKeyContext, FullContext}

ValidatorInit ==
    /\ candidate \in ItemMetadata
    /\ context \in Contexts
    /\ verdict = Accepted
    /\ vpc = "input"
    /\ PriceIdle
    /\ BatchInit

Validate ==
    /\ vpc = "input"
    /\ verdict' = model_validate(candidate, context)
    /\ vpc' = "validated"
    /\ UNCHANGED <<candidate, context>>
    /\ UNCHANGED tvars /\ UNCHANGED nvars /\ UNCHANGED pvars

ValidatorNext == Validate

ValidatorSpec == ValidatorInit /\ [][ValidatorNext]_vars

(***************************************************************************)
(* Pricing run: one draw of random.uniform, one flatten_item call          *)
(***************************************************************************)
\* the rows flatten_item is called on: those of the first dataset row
PricedRows == Rows(ds[1], <<TankTop(ds[1].image, 1), Polo(ds[1].image, 2)>>)

PriceInit ==
    /\ draw \in PriceDraws
    /\ priced = <<>>
    /\ ppc = "drawn"
    /\ ValidatorIdle
    /\ BatchInit

PriceItem ==
    /\ ppc = "drawn"
    /\ \E p \in 1..Len(PricedRows) :
          priced' = flatten_item(PricedRows[p], entry_id(p), draw)
    /\ ppc' = "flattened"
    /\ UNCHANGED draw
    /\ UNCHANGED tvars /\ UNCHANGED nvars /\ UNCHANGED vvars

PriceNext == PriceItem

PriceSpec == PriceInit /\ [][PriceNext]_vars

(***************************************************************************)
(* The checks of the validator, stated on the taxonomy itself              *)
(***************************************************************************)
ValidSubcategory(self) ==
    /\ self.category \in DOMAIN taxonomy_map
    /\ self.subcategory \in DOMAIN taxonomy_map[self.category]

\* the attribute table of the candidate's (category, subcategory)
AttributeTable(self) == taxonomy_map[self.category][self.subcategory].attributes

\* the validation was run with the taxonomy and has finished
ValidatedWithTaxonomy == vpc = "validated" /\ ~MissingContext(context)

\* a check is [label, k]: k is the position of the attribute it reads, 0 for
\* the checks of the scalar fields
Check(label, k) == [label |-> label, k |-> k]

AttributeChecks(self) ==
    [j \in 1..(2 * Len(self.attributes)) |->
        IF j % 2 = 1 THEN Check("Attribute", (j + 1) \div 2)
                     ELSE Check("Value", j \div 2)]

\* the value a check reads
CheckedValue(c, self) ==
    CASE c.label = "Category" -> self.category
      [] c.label = "Subcategory" -> self.subcategory
      [] c.label = "Product type" -> self.product_type
      [] c.label = "Attribute" -> self.attributes[c.k].name
      [] c.label = "Value" -> self.attributes[c.k].value
      [] c.label = "Material" -> self.material
      [] c.label = "Pattern" -> self.pattern

\* the values a check accepts (those its lookup can reach)
AcceptedValues(c, self) ==
    CASE c.label = "Category" -> DOMAIN taxonomy_map
      [] c.label = "Subcategory" ->
            IF self.category \in DOMAIN taxonomy_map
            THEN DOMAIN taxonomy_map[self.category] ELSE {}
      [] c.label = "Product type" ->
            IF ValidSubcategory(self)
            THEN taxonomy_map[self.category][self.subcategory].product_type ELSE {}
      [] c.label = "Attribute" ->
            IF ValidSubcategory(self) THEN DOMAIN AttributeTable(self) ELSE {}
      [] c.label = "Value" ->
            IF /\ ValidSubcategory(self)
               /\ self.attributes[c.k].name \in DOMAIN AttributeTable(self)
            THEN AttributeTable(self)[self.attributes[c.k].name] ELSE {}
      [] c.label = "Material" -> common_attributes["Material"]
      [] c.label = "Pattern" -> common_attributes["Pattern"]

Violated(c, self) == CheckedValue(c, self) \notin AcceptedValues(c, self)

\* the order of the checks as the specification lists them
ListedOrder(self) ==
    <<Check("Category", 0), Check("Subcategory", 0), Check("Product type", 0)>>
    \o AttributeChecks(self)
    \o <<Check("Material", 0), Check("Pattern", 0)>>

\* the order of the checks as the two validators run them
DefinitionOrder(self) ==
    <<Check("Pattern", 0), Check("Material", 0)>>
    \o <<Check("Category", 0), Check("Subcategory", 0), Check("Product type", 0)>>
    \o AttributeChecks(self)

ViolatedAt(order, self) == {j \in 1..Len(order) : Violated(order[j], self)}

EarliestViolated(order, self) ==
    order[CHOOSE j \in ViolatedAt(order, self) :
            \A m \in ViolatedAt(order, self) : j <= m]

\* the verdict is the error of check c
Reports(v, c, self) ==
    /\ ~v.ok
    /\ v.label = c.label
    /\ v.value = CheckedValue(c, self)

\* the verdict is what fail-fast validation in the given order yields
FailFastIn(order, v, self) ==
    IF ViolatedAt(order, self) = {} THEN v.ok
    ELSE Reports(v, EarliestViolated(order, self), self)

(***************************************************************************)
(* C5: every candidate that validation accepts against a taxonomy has its  *)
(* category in the taxonomy, its subcategory under that category, its      *)
(* product type among those of (category, subcategory), every attribute    *)
(* name among the attributes of (category, subcategory) with its value in  *)
(* that attribute's valid values, its material in the material set and     *)
(* its pattern in the pattern set.                                         *)
(***************************************************************************)
C5_AcceptedConformsToTaxonomy ==
    (ValidatedWithTaxonomy /\ verdict.ok) =>
        /\ candidate.category \in DOMAIN taxonomy_map
        /\ candidate.subcategory \in DOMAIN taxonomy_map[candidate.category]
        /\ candidate.product_type \in
              taxonomy_map[candidate.category][candidate.subcategory].product_type
        /\ \A k \in 1..Len(candidate.attributes) :
              /\ candidate.attributes[k].name \in DOMAIN AttributeTable(candidate)
              /\ candidate.attributes[k].value \in
                    AttributeTable(candidate)[candidate.attributes[k].name]
        /\ candidate.material \in common_attributes["Material"]
        /\ candidate.pattern \in common_attributes["Pattern"]

\* a candidate with two attributes has been accepted
C5_Witness ==
    /\ ValidatedWithTaxonomy
    /\ verdict.ok
    /\ Len(candidate.attributes) = 2

(***************************************************************************)
(* C6: for every rejected candidate, whichever check fails, the error      *)
(* names the offending field, the rejected value and the list of values    *)
(* that would have been accepted for that field.                           *)
(***************************************************************************)
C6_ErrorNamesFieldValueAndValidValues ==
    (ValidatedWithTaxonomy /\ ~verdict.ok) =>
        LET c == EarliestViolated(DefinitionOrder(candidate), candidate) IN
        /\ Reports(verdict, c, candidate)
        /\ c.label = "Value" => verdict.about = candidate.attributes[c.k].name
        /\ verdict.listed
        /\ verdict.valid = AcceptedValues(c, candidate)

(***************************************************************************)
(* C7 as stated: validation is fail-fast in the order category,            *)
(* subcategory, product type, attributes (name before value), material,    *)
(* pattern; the error reported is that of the earliest violated check.     *)
(***************************************************************************)
C7_FailFastInListedOrder ==
    ValidatedWithTaxonomy =>
        FailFastIn(ListedOrder(candidate), verdict, candidate)

(***************************************************************************)
(* C7 amended: validation is fail-fast in the order pattern, material,     *)
(* category, subcategory, product type, attributes (in sequence order,     *)
(* name before value); the error reported is that of the earliest          *)
(* violated check in that order.                                           *)
(***************************************************************************)
C7_FailFastInDefinitionOrder ==
    ValidatedWithTaxonomy =>
        FailFastIn(DefinitionOrder(candidate), verdict, candidate)

\* a candidate with an invalid category and an invalid pattern was rejected
C7_Witness ==
    /\ ValidatedWithTaxonomy
    /\ Violated(Check("Category", 0), candidate)
    /\ Violated(Check("Pattern", 0), candidate)
    /\ ~verdict.ok

(***************************************************************************)
(* C8: a candidate whose category, subcategory, product type, material     *)
(* and pattern are valid and whose attribute sequence is empty is          *)
(* accepted.                                                               *)
(***************************************************************************)
C8_EmptyAttributesAccepted ==
    ( /\ ValidatedWithTaxonomy
      /\ candidate.attributes = <<>>
      /\ ValidSubcategory(candidate)
      /\ ~Violated(Check("Product type", 0), candidate)
      /\ ~Violated(Check("Material", 0), candidate)
      /\ ~Violated(Check("Pattern", 0), candidate) )
    => verdict.ok

\* a candidate without attributes has been accepted
C8_Witness ==
    /\ ValidatedWithTaxonomy
    /\ candidate.attributes = <<>>
    /\ verdict.ok

(***************************************************************************)
(* Assembly properties                                                     *)
(***************************************************************************)
\* assembly has run
Assembled == cell \in {"push", "finished", "sink failed"}

\* the number of extracted items in the rows before row r
RECURSIVE ItemsBefore(_, _)
ItemsBefore(rows, r) ==
    IF r <= 1 THEN 0 ELSE ItemsBefore(rows, r - 1) + Len(rows[r - 1])

(***************************************************************************)
(* C9: assembly yields exactly one catalog entry per extracted item, in    *)
(* row order and, within a row, in item order; the entry at position p     *)
(* (1-based) has identifier p, so the identifiers are exactly 1..M.        *)
(***************************************************************************)
C9_OneEntryPerItemSequentialIds ==
    Assembled =>
        /\ Len(hf_dataset_items) = ItemsBefore(results, Len(results) + 1)
        /\ \A p \in 1..Len(hf_dataset_items) : hf_dataset_items[p].id = p
        /\ \A r \in 1..Len(results) : \A k \in 1..Len(results[r]) :
              LET entry == hf_dataset_items[ItemsBefore(results, r) + k] IN
              /\ entry.image = results[r][k].image
              /\ entry.title = results[r][k].metadata.title

\* the first row had one item, the second two, and three or more entries
\* were assembled
C9_Witness ==
    /\ Assembled
    /\ Len(results[1]) = 1
    /\ Len(results[2]) = 2
    /\ Len(hf_dataset_items) >= 3

(***************************************************************************)
(* C11: a per-call timeout of one item's attempt ends only that attempt:   *)
(* it leaves the in-flight attempts, the attempt counts and the results    *)
(* of every other item unchanged, and it does not end the batch.           *)
(***************************************************************************)
C11_TimeoutStep ==
    \A i \in Items :
        CallFails(i) =>
            /\ \A j \in Items \ {i} :
                  /\ pc'[j] = pc[j]
                  /\ attempt_number'[j] = attempt_number[j]
                  /\ task_result'[j] = task_result[j]
            /\ cell' = cell
            /\ results' = results

C11_TimeoutEndsOnlyThatAttempt == [][C11_TimeoutStep]_vars

(***************************************************************************)
(* Sink properties                                                         *)
(***************************************************************************)
\* the record conforms to the taxonomy, stated on the taxonomy itself
Conforms(metadata) == ViolatedAt(DefinitionOrder(metadata), metadata) = {}

\* the entries of a pushed list that carry the image of item i
EntriesOf(list, i) == {p \in 1..Len(list) : list[p].image = ds[i].image}

(***************************************************************************)
(* C12: no partial metadata is ever persisted: every entry handed to the   *)
(* sink comes from an attempt that succeeded and in which every candidate  *)
(* of the answer passed validation; an attempt with a rejected candidate   *)
(* contributes nothing, and an item that exhausted its attempts has no     *)
(* entry in the catalog.                                                   *)
(***************************************************************************)
C12_NoPartialMetadataPersisted ==
    \A n \in 1..Len(pushed) :
        /\ \A p \in 1..Len(pushed[n]) :
              \E i \in Items :
                 /\ pc[i] = "returned"
                 /\ \E k \in 1..Len(task_result[i]) :
                       /\ pushed[n][p].image = task_result[i][k].image
                       /\ pushed[n][p].title = task_result[i][k].metadata.title
                 /\ \A k \in 1..Len(task_result[i]) :
                       Conforms(task_result[i][k].metadata)
        /\ \A i \in Items :
              /\ Cardinality(EntriesOf(pushed[n], i)) = Len(task_result[i])
              /\ pc[i] = "raised" => EntriesOf(pushed[n], i) = {}

\* entries were handed to the sink, among them those of an item that had
\* failed attempts before the one that succeeded with two records
C12_Witness ==
    /\ pushed # <<>>
    /\ \E i \in Items :
          /\ attempt_number[i] = MaxAttempts
          /\ Len(task_result[i]) = 2
          /\ Cardinality(EntriesOf(pushed[1], i)) = 2

\* nothing of the run is left to do
RunOver == AllTerminal /\ cell \in {"batch raised", "finished", "sink failed"}

(***************************************************************************)
(* C13: the dataset sink is invoked exactly once per run, only after       *)
(* every item of the batch has reached its terminal outcome and assembly   *)
(* has finished, and it receives the full sequence of catalog entries in   *)
(* that single call.                                                       *)
(***************************************************************************)
C13_SinkInvokedExactlyOnce ==
    /\ Len(pushed) <= 1
    /\ pushed # <<>> =>
          /\ AllTerminal
          /\ cell \in {"finished", "sink failed"}
          /\ pushed[1] = hf_dataset_items
          /\ Len(pushed[1]) = ItemsBefore(results, Len(results) + 1)
    /\ RunOver => Len(pushed) = 1

(***************************************************************************)
(* C14: every catalog entry's price, taken in hundredths of a unit, is an  *)
(* integer between 1000 and 40000: the price lies in [10.00, 400.00] and   *)
(* has at most 2 decimal digits.                                           *)
(***************************************************************************)
C14_PriceInRangeTwoDecimals ==
    ppc = "flattened" =>
        /\ priced.price % 10 = 0
        /\ priced.price \div 10 \in 1000..40000

\* a draw that is not a multiple of a hundredth has been rounded up to the
\* upper end of the range
C14_Witness ==
    /\ ppc = "flattened"
    /\ draw % 10 # 0
    /\ priced.price = 400000

(***************************************************************************)
(* C15: the gate is released on every exit path of an attempt: in every    *)
(* reachable state the free permits plus the items holding the gate equal  *)
(* ConcurrencyLimit, and when the batch has finished (every item has       *)
(* ended and the batch cell is over) all permits are free.                 *)
(***************************************************************************)
C15_PermitsConserved ==
    /\ sem + Cardinality(Outstanding) = ConcurrencyLimit
    /\ (AllTerminal /\ cell # "batch") => sem = ConcurrencyLimit

\* the batch has finished with all permits free after attempts have ended
\* in success, in a retried failure and in exhaustion
C15_Witness ==
    /\ AllTerminal
    /\ cell # "batch"
    /\ sem = ConcurrencyLimit
    /\ \E i, j \in Items :
          /\ pc[i] = "raised"
          /\ pc[j] = "returned"
          /\ attempt_number[j] > 1

(***************************************************************************)
(* C16 as stated: gate acquisition wraps an item's whole retry loop: the   *)
(* item acquires the gate once, keeps its slot across all its attempts     *)
(* and the delays between them, and releases it only when it succeeds or   *)
(* exhausts its attempts.                                                  *)
(***************************************************************************)
C16_GateAroundRetryLoopStep ==
    \A i \in Items :
        /\ (pc[i] # "call" /\ pc'[i] = "call") => attempt_number[i] = 1
        /\ (pc[i] = "call" /\ pc'[i] # "call") => pc'[i] \in Terminal

C16_GateAroundRetryLoop == [][C16_GateAroundRetryLoopStep]_vars

(***************************************************************************)
(* C16 amended: gate acquisition wraps a single attempt, inside the retry  *)
(* loop: the item acquires the gate once per attempt, holds its slot only  *)
(* while that attempt's call is outstanding, releases it when the attempt  *)
(* ends (success, validation failure, transport failure or timeout), and   *)
(* holds no slot during the delay before the next attempt.                 *)
(***************************************************************************)
C16_GatePerAttemptStep ==
    \A i \in Items :
        /\ (pc[i] # "call" /\ pc'[i] = "call") =>
              /\ pc[i] = "acquire"
              /\ sem' = sem - 1
              /\ attempt_number'[i] = attempt_number[i]
        /\ (pc[i] = "call" /\ pc'[i] # "call") =>
              /\ sem' = sem + 1
              /\ pc'[i] \in {"sleep", "returned", "raised"}
        /\ (pc[i] = "sleep" /\ pc'[i] # "sleep") =>
              /\ sem' = sem
              /\ pc'[i] = "acquire"

C16_GatePerAttempt == [][C16_GatePerAttemptStep]_vars

\* an item waits for its next attempt while the other items fill the gate
C16_Witness ==
    \E i \in Items :
        /\ pc[i] = "sleep"
        /\ Outstanding # {}
        /\ \/ Cardinality(Outstanding) = ConcurrencyLimit
           \/ Outstanding = Items \ {i}

\* the image that was shown to the model in the request whose answer
\* contained the record
ImageShownFor(title) == title[1]

(***************************************************************************)
(* C17: every row produced for a successful item, and every catalog entry  *)
(* derived from it, carries the image of the input item whose extraction   *)
(* call produced that metadata; no interleaving pairs one item's metadata  *)
(* with another item's image.                                              *)
(***************************************************************************)
C17_MetadataPairedWithOwnImage ==
    /\ \A i \in Items : \A k \in 1..Len(task_result[i]) :
          /\ task_result[i][k].image = ds[i].image
          /\ ImageShownFor(task_result[i][k].metadata.title) = ds[i].image
    /\ \A r \in 1..Len(results) : \A k \in 1..Len(results[r]) :
          ImageShownFor(results[r][k].metadata.title) = results[r][k].image
    /\ \A p \in 1..Len(hf_dataset_items) :
          ImageShownFor(hf_dataset_items[p].title) = hf_dataset_items[p].image

\* entries of two different images were assembled after a batch in which
\* an item was retried
C17_Witness ==
    /\ Assembled
    /\ \E p, q \in 1..Len(hf_dataset_items) :
          hf_dataset_items[p].image # hf_dataset_items[q].image
    /\ \E i \in Items : attempt_number[i] > 1

(***************************************************************************)
(* C18: the per-call timeout of an attempt starts only after the item has  *)
(* been admitted through the gate: while an item waits for a free slot no  *)
(* timeout failure happens to it and none of its attempts is consumed;     *)
(* the wait ends only in its admission, with the same attempt number.      *)
(***************************************************************************)
C18_WaitingStep ==
    \A i \in Items :
        pc[i] = "acquire" =>
            /\ pc'[i] \in {"acquire", "call"}
            /\ attempt_number'[i] = attempt_number[i]
            /\ retry_errors'[i] = retry_errors[i]

C18_NoTimeoutWhileWaiting == [][C18_WaitingStep]_vars

\* an item is still at its first attempt, waiting at a gate that has no
\* free slot, while another item is already at its last attempt
C18_Witness ==
    \E i, j \in Items :
        /\ pc[i] = "acquire"
        /\ attempt_number[i] = 1
        /\ sem = 0
        /\ pc[j] = "call"
        /\ attempt_number[j] = MaxAttempts

\* the call of item i ends with an empty answer that is taken as a success
EmptyAnswerSucceeds(i) ==
    /\ CallReturns(i)
    /\ pc'[i] = "returned"
    /\ task_result'[i] = <<>>

(***************************************************************************)
(* C19: an attempt whose model call returns an empty sequence of records   *)
(* counts as a success: the item is not retried, its row contributes zero  *)
(* catalog entries, and the identifiers of the remaining entries are       *)
(* still the contiguous range 1..M.                                        *)
(***************************************************************************)
C19_EmptyAnswerIsSuccess ==
    /\ \A i \in Items :
          /\ pc[i] = "call" => ENABLED EmptyAnswerSucceeds(i)
          /\ (pc[i] = "returned" /\ task_result[i] = <<>>) =>
                ~ENABLED (StartAttempt(i) \/ Acquire(i))
    /\ Assembled =>
          /\ \A i \in Items :
                results[i] = <<>> => EntriesOf(hf_dataset_items, i) = {}
          /\ {hf_dataset_items[p].id : p \in 1..Len(hf_dataset_items)}
                = 1..Len(hf_dataset_items)

\* the first attempt of an item returned no record, and the other items'
\* records were assembled
C19_Witness ==
    /\ Assembled
    /\ Len(hf_dataset_items) >= 2
    /\ \E i \in Items : results[i] = <<>> /\ attempt_number[i] = 1

(***************************************************************************)
(* C20: validation of any candidate with no validation context, or with a  *)
(* context whose taxonomy data is absent or empty, is rejected with the    *)
(* 'taxonomy data is required' error whatever the candidate's fields are;  *)
(* no candidate is ever accepted without a taxonomy.                       *)
(***************************************************************************)
C20_NoTaxonomyRejectedAsRequired ==
    (vpc = "validated" /\ MissingContext(context)) =>
        /\ ~verdict.ok
        /\ verdict = TaxonomyRequired

====
